---- MODULE Spec2Model ----
(***************************************************************************)
(* NoSleepJs (src/src/index.js): a sleep inhibitor that dispatches between *)
(* the Wake Lock API, a recurring-navigation timer for old iOS, and a      *)
(* silent looping video.  The model holds the object's fields, the         *)
(* platform resources those fields refer to (lock sentinels, interval      *)
(* timers, the media surface), the platform requests in flight, and the    *)
(* page's visibility.                                                      *)
(***************************************************************************)
EXTENDS Naturals, Integers, FiniteSets, Sequences, TLC

\* ------------------------------------------------------------- bounds
MaxLocks == 3      \* wake-lock requests issued over a run
MaxTimers == 3     \* interval timers created over a run
MaxPending == 2    \* play() calls in flight at once
MaxResets == 2     \* navigation resets counted over a run
MaxDrift == 1      \* changes of the detector's answers over a run

\* ------------------------------------------------------------- values
\* Handles are positive numbers; null and a field the constructor never set
\* are the two falsy values below them.
Null == 0
Undefined == 0 - 1
Truthy(v) == v \notin {Undefined, Null}
NoListener == "undefined"
NoElement == "undefined"

Errors == {"NotAllowedError", "AbortError"}
Hrefs == {<<"p">>, <<"p", "#", "a">>}

VARIABLES
  nativeSupported,    \* "wakeLock" in navigator, as of now
  oldIOS,             \* the answer of isOldIOS(), as of now
  enabled,            \* this.enabled
  _wakeLock,          \* this._wakeLock: Undefined, Null or a sentinel id
  visibilityListener, \* this.visibilityListener: NoListener or "listener"
  noSleepTimer,       \* this.noSleepTimer: Undefined, Null or a timer id
  noSleepElement,     \* this.noSleepElement: NoElement or "element"
  subscribed,         \* the listener's visibility subscription is registered
  hidden,             \* document.hidden
  nextLock,           \* wake-lock requests issued so far
  pendingLocks,       \* requests the platform has not answered
  activeLocks,        \* sentinels granted and not released
  nextTimer,          \* interval timers created so far
  liveTimers,         \* interval timers not cleared
  pendingPlay,        \* play() calls the platform has not answered
  playing,            \* the media surface is playing
  href,               \* window.location.href
  resets,             \* navigation-reset cycles performed
  loading,            \* a navigation started by the interval callback is loading
  stops,              \* window.stop timeouts set and not yet run
  settled,            \* how the last settled enable() awaitable settled
  platformErr,        \* the last error the platform answered a request with
  raised,             \* what the last disable() call raised
  dispatched,         \* the branch the last enable()/disable() call took
  lastOp,             \* the last step taken
  calls,              \* the last two enable()/disable() invocations
  userEnabled,        \* the user has called enable()
  drifts              \* changes of the detector's answers so far

vars == <<nativeSupported, oldIOS, enabled, _wakeLock, visibilityListener,
          noSleepTimer, noSleepElement, subscribed, hidden, nextLock,
          pendingLocks, activeLocks, nextTimer, liveTimers, pendingPlay,
          playing, href, resets, loading, stops, settled, platformErr, raised, dispatched,
          lastOp, calls, userEnabled, drifts>>

\* ------------------------------------------------------------- detector
isNativeWakeLockSupported == nativeSupported
isOldIOS == oldIOS

\* The branch an enable()/disable() call takes (index.js:58-73, 123-139).
Branch == IF isNativeWakeLockSupported THEN "Native"
          ELSE IF isOldIOS THEN "Legacy" ELSE "Media"

\* The strategy the constructor selected, read off the fields it populated.
Strategy == IF visibilityListener # NoListener THEN "Native"
            ELSE IF noSleepElement # NoElement THEN "Media" ELSE "Legacy"

\* ------------------------------------------------------------- the object
\* The inhibitor together with the platform resources its methods act on.
This == [enabled |-> enabled, _wakeLock |-> _wakeLock,
         visibilityListener |-> visibilityListener,
         noSleepTimer |-> noSleepTimer, noSleepElement |-> noSleepElement,
         subscribed |-> subscribed, nextLock |-> nextLock,
         pendingLocks |-> pendingLocks, activeLocks |-> activeLocks,
         nextTimer |-> nextTimer, liveTimers |-> liveTimers,
         pendingPlay |-> pendingPlay, playing |-> playing,
         settled |-> settled, platformErr |-> platformErr,
         raised |-> raised, dispatched |-> dispatched]

Becomes(s) ==
  /\ enabled' = s.enabled
  /\ _wakeLock' = s._wakeLock
  /\ visibilityListener' = s.visibilityListener
  /\ noSleepTimer' = s.noSleepTimer
  /\ noSleepElement' = s.noSleepElement
  /\ subscribed' = s.subscribed
  /\ nextLock' = s.nextLock
  /\ pendingLocks' = s.pendingLocks
  /\ activeLocks' = s.activeLocks
  /\ nextTimer' = s.nextTimer
  /\ liveTimers' = s.liveTimers
  /\ pendingPlay' = s.pendingPlay
  /\ playing' = s.playing
  /\ settled' = s.settled
  /\ platformErr' = s.platformErr
  /\ raised' = s.raised
  /\ dispatched' = s.dispatched

\* new VisibilityListener(callback): the subscription exists from the
\* listener's creation (visibility-listener.js is not among the sources).
VisibilityListenerNew == TRUE

\* visibilityListener.removeListeners(): drops the registered listeners.
removeListeners(s) == [s EXCEPT !.subscribed = FALSE]

\* noSleepElement.pause(): stops playback.
pause(s) == [s EXCEPT !.playing = FALSE]

\* constructor (index.js:21-41)
Constructed(native, old) ==
  [enabled |-> FALSE,
   _wakeLock |-> IF native THEN Null ELSE Undefined,
   visibilityListener |-> IF native THEN "listener" ELSE NoListener,
   noSleepTimer |-> IF ~native /\ old THEN Null ELSE Undefined,
   noSleepElement |-> IF ~native /\ ~old THEN "element" ELSE NoElement,
   subscribed |-> native /\ VisibilityListenerNew,
   nextLock |-> 0, pendingLocks |-> {}, activeLocks |-> {},
   nextTimer |-> 0, liveTimers |-> {},
   pendingPlay |-> 0, playing |-> FALSE,
   settled |-> "none", platformErr |-> "none",
   raised |-> "none", dispatched |-> "none"]

\* ------------------------------------------------------------- disable()
\* A native branch that calls release() without the guard of index.js:124.
disableNativeUnguarded(s) ==
  IF ~Truthy(s._wakeLock) THEN [s EXCEPT !.raised = "TypeError"]
  ELSE LET r == [s EXCEPT !.activeLocks = @ \ {s._wakeLock}, !._wakeLock = Null]
       IN IF s.visibilityListener # NoListener THEN removeListeners(r) ELSE r

\* A native branch that leaves the visibility subscription in place.
disableNativeKeepsListener(s) ==
  [s EXCEPT !.activeLocks = IF Truthy(s._wakeLock) THEN @ \ {s._wakeLock} ELSE @,
            !._wakeLock = Null]

\* native branch of disable() (index.js:123-130)
disableNative(s) ==
  LET r == [s EXCEPT !.activeLocks = IF Truthy(s._wakeLock) THEN @ \ {s._wakeLock} ELSE @,
                     !._wakeLock = Null]
  IN IF s.visibilityListener # NoListener THEN removeListeners(r) ELSE r

\* An old-iOS branch that nulls the handle without clearInterval.
disableOldIOSLeavesTimer(s) ==
  [s EXCEPT !.noSleepTimer = IF Truthy(@) THEN Null ELSE @]

\* An old-iOS branch that clears the interval and keeps the handle.
disableOldIOSKeepsHandle(s) ==
  [s EXCEPT !.liveTimers = IF Truthy(s.noSleepTimer) THEN @ \ {s.noSleepTimer} ELSE @]

\* old-iOS branch of disable() (index.js:131-136)
disableOldIOS(s) ==
  [s EXCEPT !.liveTimers = IF Truthy(s.noSleepTimer) THEN @ \ {s.noSleepTimer} ELSE @,
            !.noSleepTimer = IF Truthy(@) THEN Null ELSE @]

\* video branch of disable() (index.js:137-139): pause() on a missing
\* noSleepElement is a TypeError.
disableVideo(s) ==
  IF s.noSleepElement = NoElement THEN [s EXCEPT !.raised = "TypeError"]
  ELSE pause(s)

\* A disable() whose last line flips the flag instead of clearing it.
disableToggle(s) ==
  LET c == [s EXCEPT !.raised = "none", !.dispatched = Branch]
      r == IF isNativeWakeLockSupported THEN disableNative(c)
           ELSE IF isOldIOS THEN disableOldIOS(c)
           ELSE disableVideo(c)
  IN IF r.raised = "none" THEN [r EXCEPT !.enabled = ~@] ELSE r

\* disable() (index.js:122-141); a branch that raises leaves before
\* this.enabled = false.
disable(s) ==
  LET c == [s EXCEPT !.raised = "none", !.dispatched = Branch]
      r == IF isNativeWakeLockSupported THEN disableNative(c)
           ELSE IF isOldIOS THEN disableOldIOS(c)
           ELSE disableVideo(c)
  IN IF r.raised = "none" THEN [r EXCEPT !.enabled = FALSE] ELSE r

\* ------------------------------------------------------------- enable()
\* A catch block that rethrows without clearing the flag.
enableCatchKeepsFlag(s, err) == [s EXCEPT !.settled = err]

\* catch block of enable()'s native branch (index.js:64-68)
enableCatch(s, err) == [s EXCEPT !.enabled = FALSE, !.settled = err]

\* A try block that stores the sentinel and forgets the flag.
enableTryForgetsFlag(s, id) == [s EXCEPT !._wakeLock = id, !.settled = "resolved"]

\* try block of enable()'s native branch after the await (index.js:60-63)
enableTry(s, id) ==
  [s EXCEPT !._wakeLock = id, !.enabled = TRUE, !.settled = "resolved"]

\* A release handler that requests the lock again by itself.
_onWakeLockReleaseReacquires(s) ==
  [s EXCEPT !.nextLock = @ + 1, !.pendingLocks = @ \cup {s.nextLock + 1}]

\* _onWakeLockRelease (index.js:80-82): logs, touches no field.
_onWakeLockRelease(s) == s

\* An _enableOldIOS without the force-disable of index.js:90.
_enableOldIOSNoReset(s) ==
  LET t == s.nextTimer + 1
  IN [s EXCEPT !.nextTimer = t,
               !.liveTimers = @ \cup {t},
               !.noSleepTimer = t,
               !.enabled = TRUE]

\* _enableOldIOS (index.js:89-99)
_enableOldIOS(s) ==
  LET d == disable(s)
      t == d.nextTimer + 1
  IN [d EXCEPT !.nextTimer = t,
               !.liveTimers = @ \cup {t},
               !.noSleepTimer = t,
               !.enabled = TRUE]

\* catch block of _enableVideoPlayback (index.js:111-115)
videoCatch(s, err) == [s EXCEPT !.enabled = FALSE, !.settled = err]

\* try block of _enableVideoPlayback after the await (index.js:109-110)
videoTry(s) == [s EXCEPT !.enabled = TRUE, !.settled = "resolved"]

\* _enableVideoPlayback up to its await (index.js:107-109); play() on a
\* missing noSleepElement is a TypeError inside the try.
_enableVideoPlayback(s) ==
  IF s.noSleepElement = NoElement THEN videoCatch(s, "TypeError")
  ELSE [s EXCEPT !.pendingPlay = @ + 1]

\* enable() up to its first await (index.js:57-74)
enable(s) ==
  IF isNativeWakeLockSupported THEN
    [s EXCEPT !.nextLock = @ + 1,
              !.pendingLocks = @ \cup {s.nextLock + 1},
              !.dispatched = "Native"]
  ELSE IF isOldIOS THEN
    [_enableOldIOS(s) EXCEPT !.settled = "resolved", !.dispatched = "Legacy"]
  ELSE
    [_enableVideoPlayback(s) EXCEPT !.dispatched = "Media"]

\* The bounds leave room for the call.
EnableFits ==
  IF isNativeWakeLockSupported THEN nextLock < MaxLocks
  ELSE IF isOldIOS THEN nextTimer < MaxTimers
  ELSE pendingPlay < MaxPending

\* ------------------------------------------------------------- platform
\* navigator.wakeLock.request("screen") answered with a sentinel (index.js:60)
lockGrant(s, id) ==
  [s EXCEPT !.pendingLocks = @ \ {id}, !.activeLocks = @ \cup {id}]

\* navigator.wakeLock.request("screen") answered with an error (index.js:60)
lockDeny(s, id, err) ==
  [s EXCEPT !.pendingLocks = @ \ {id}, !.platformErr = err]

\* the platform releases a sentinel and fires its release event (index.js:63)
lockRelease(s, id) == [s EXCEPT !.activeLocks = @ \ {id}]

\* noSleepElement.play() allowed: playback starts
playAllow(s) == [s EXCEPT !.pendingPlay = @ - 1, !.playing = TRUE]

\* noSleepElement.play() blocked
playBlock(s, err) == [s EXCEPT !.pendingPlay = @ - 1, !.platformErr = err]

\* window.location.href.split("#")[0] (index.js:94)
RECURSIVE split0(_)
split0(u) == IF u = <<>> \/ Head(u) = "#" THEN <<>> ELSE <<Head(u)>> \o split0(Tail(u))

Push(c) == IF Len(calls) < 2 THEN Append(calls, c) ELSE <<calls[2], c>>

\* ------------------------------------------------------------- steps
Init ==
  /\ nativeSupported \in BOOLEAN
  /\ oldIOS \in BOOLEAN
  /\ LET c == Constructed(nativeSupported, oldIOS) IN
       /\ enabled = c.enabled
       /\ _wakeLock = c._wakeLock
       /\ visibilityListener = c.visibilityListener
       /\ noSleepTimer = c.noSleepTimer
       /\ noSleepElement = c.noSleepElement
       /\ subscribed = c.subscribed
       /\ nextLock = c.nextLock
       /\ pendingLocks = c.pendingLocks
       /\ activeLocks = c.activeLocks
       /\ nextTimer = c.nextTimer
       /\ liveTimers = c.liveTimers
       /\ pendingPlay = c.pendingPlay
       /\ playing = c.playing
       /\ settled = c.settled
       /\ platformErr = c.platformErr
       /\ raised = c.raised
       /\ dispatched = c.dispatched
  /\ hidden = FALSE
  /\ href \in Hrefs
  /\ resets = 0
  /\ loading = FALSE
  /\ stops = 0
  /\ lastOp = "init"
  /\ calls = <<>>
  /\ userEnabled = FALSE
  /\ drifts = 0

\* the user calls enable()
Enable ==
  /\ EnableFits
  /\ Becomes(enable(This))
  /\ lastOp' = "enable"
  /\ calls' = Push("enable")
  /\ userEnabled' = TRUE
  /\ UNCHANGED <<nativeSupported, oldIOS, hidden, href, resets, loading, stops, drifts>>

\* the user calls disable()
Disable ==
  /\ Becomes(disable(This))
  /\ lastOp' = "disable"
  /\ calls' = Push("disable")
  /\ UNCHANGED <<nativeSupported, oldIOS, hidden, href, resets, loading, stops, userEnabled, drifts>>

\* the platform grants a pending lock request; enable() resumes (index.js:60-63)
Grant ==
  \E id \in pendingLocks :
    /\ Becomes(enableTry(lockGrant(This, id), id))
    /\ lastOp' = "grant"
    /\ UNCHANGED <<nativeSupported, oldIOS, hidden, href, resets, loading, stops, calls, userEnabled, drifts>>

\* the platform rejects a pending lock request; enable() resumes in its catch
Reject ==
  \E id \in pendingLocks, err \in Errors :
    /\ Becomes(enableCatch(lockDeny(This, id, err), err))
    /\ lastOp' = "reject"
    /\ UNCHANGED <<nativeSupported, oldIOS, hidden, href, resets, loading, stops, calls, userEnabled, drifts>>

\* the platform releases a held sentinel; its release listener runs
Release ==
  \E id \in activeLocks :
    /\ Becomes(_onWakeLockRelease(lockRelease(This, id)))
    /\ lastOp' = "release"
    /\ UNCHANGED <<nativeSupported, oldIOS, hidden, href, resets, loading, stops, calls, userEnabled, drifts>>

\* play() resolves; _enableVideoPlayback resumes (index.js:109-110)
PlayResolve ==
  /\ pendingPlay > 0
  /\ Becomes(videoTry(playAllow(This)))
  /\ lastOp' = "played"
  /\ UNCHANGED <<nativeSupported, oldIOS, hidden, href, resets, loading, stops, calls, userEnabled, drifts>>

\* play() rejects; _enableVideoPlayback resumes in its catch
PlayReject ==
  /\ pendingPlay > 0
  /\ \E err \in Errors : Becomes(videoCatch(playBlock(This, err), err))
  /\ lastOp' = "blocked"
  /\ UNCHANGED <<nativeSupported, oldIOS, hidden, href, resets, loading, stops, calls, userEnabled, drifts>>

\* An interval callback that does not look at document.hidden.
intervalCallbackIgnoresHidden(p) ==
  [p EXCEPT !.href = split0(@), !.resets = @ + 1, !.loading = TRUE, !.stops = @ + 1]

\* the interval callback (index.js:92-97): when the page is visible, navigate
\* to the URL without its fragment and schedule window.stop.
intervalCallback(p) ==
  IF ~p.hidden
    THEN [p EXCEPT !.href = split0(@), !.resets = @ + 1, !.loading = TRUE,
                   !.stops = @ + 1]
    ELSE p

\* window.stop (index.js:95): aborts the navigation in progress.
stop(p) == [p EXCEPT !.loading = FALSE, !.stops = @ - 1]

\* The page as the interval callback sees it.
Page == [hidden |-> hidden, href |-> href, resets |-> resets,
         loading |-> loading, stops |-> stops]

\* A live interval fires (every 15000 ms, index.js:97); the 0 ms window.stop
\* timeout of the previous tick has run by then.
Tick ==
  /\ liveTimers # {}
  /\ stops = 0
  /\ resets < MaxResets
  /\ LET q == intervalCallback(Page) IN
       /\ href' = q.href
       /\ resets' = q.resets
       /\ loading' = q.loading
       /\ stops' = q.stops
  /\ lastOp' = "tick"
  /\ UNCHANGED <<nativeSupported, oldIOS, enabled, _wakeLock, visibilityListener,
                 noSleepTimer, noSleepElement, subscribed, hidden, nextLock,
                 pendingLocks, activeLocks, nextTimer, liveTimers, pendingPlay,
                 playing, settled, platformErr, raised, dispatched, calls,
                 userEnabled, drifts>>

\* the timeout set by setTimeout(window.stop, 0) runs (index.js:95)
Stop ==
  /\ stops > 0
  /\ LET q == stop(Page) IN
       /\ loading' = q.loading
       /\ stops' = q.stops
  /\ lastOp' = "stop"
  /\ UNCHANGED <<nativeSupported, oldIOS, enabled, _wakeLock, visibilityListener,
                 noSleepTimer, noSleepElement, subscribed, hidden, nextLock,
                 pendingLocks, activeLocks, nextTimer, liveTimers, pendingPlay,
                 playing, href, resets, settled, platformErr, raised, dispatched,
                 calls, userEnabled, drifts>>

\* the page goes to the background
PageHidden ==
  /\ ~hidden
  /\ hidden' = TRUE
  /\ lastOp' = "hidden"
  /\ UNCHANGED <<nativeSupported, oldIOS, enabled, _wakeLock, visibilityListener,
                 noSleepTimer, noSleepElement, subscribed, nextLock,
                 pendingLocks, activeLocks, nextTimer, liveTimers, pendingPlay,
                 playing, href, resets, loading, stops, settled, platformErr, raised, dispatched,
                 calls, userEnabled, drifts>>

\* the page becomes visible; a registered listener calls this.enable
\* (index.js:32)
PageVisible ==
  /\ hidden
  /\ hidden' = FALSE
  /\ lastOp' = "visible"
  /\ IF subscribed
       THEN /\ EnableFits
            /\ Becomes(enable(This))
            /\ calls' = Push("enable")
       ELSE UNCHANGED <<enabled, _wakeLock, visibilityListener, noSleepTimer,
                        noSleepElement, subscribed, nextLock, pendingLocks,
                        activeLocks, nextTimer, liveTimers, pendingPlay, playing,
                        settled, platformErr, raised, dispatched, calls>>
  /\ UNCHANGED <<nativeSupported, oldIOS, href, resets, loading, stops, userEnabled, drifts>>

\* the detector's answers change after construction
Drift ==
  /\ drifts < MaxDrift
  /\ \E n \in BOOLEAN, o \in BOOLEAN :
       /\ <<n, o>> # <<nativeSupported, oldIOS>>
       /\ nativeSupported' = n
       /\ oldIOS' = o
  /\ drifts' = drifts + 1
  /\ lastOp' = "drift"
  /\ UNCHANGED <<enabled, _wakeLock, visibilityListener, noSleepTimer,
                 noSleepElement, subscribed, hidden, nextLock, pendingLocks,
                 activeLocks, nextTimer, liveTimers, pendingPlay, playing, href,
                 resets, loading, stops, settled, platformErr, raised, dispatched, calls,
                 userEnabled>>

Next ==
  \/ Enable
  \/ Disable
  \/ Grant
  \/ Reject
  \/ Release
  \/ PlayResolve
  \/ PlayReject
  \/ Tick
  \/ Stop
  \/ PageHidden
  \/ PageVisible

\* The detector answers the same throughout the page's life.
Spec == Init /\ [][Next]_vars

NextDrift == Next \/ Drift

\* The detector's answers may change after construction.
SpecDrift == Init /\ [][NextDrift]_vars

\* enable(), disable() and the listener's enable() only when no platform
\* request is pending: sequential use of the inhibitor.
EnableQuiet == pendingLocks = {} /\ pendingPlay = 0 /\ Enable
DisableQuiet == pendingLocks = {} /\ pendingPlay = 0 /\ Disable
PageVisibleQuiet == (subscribed => pendingLocks = {}) /\ PageVisible

NextSeq ==
  \/ EnableQuiet
  \/ DisableQuiet
  \/ Grant
  \/ Reject
  \/ Release
  \/ PlayResolve
  \/ PlayReject
  \/ Tick
  \/ Stop
  \/ PageHidden
  \/ PageVisibleQuiet

\* No call is made while an earlier enable() is pending.
SpecSeq == Init /\ [][NextSeq]_vars

TypeOK ==
  /\ enabled \in BOOLEAN
  /\ _wakeLock \in {Undefined, Null} \cup (1..nextLock)
  /\ noSleepTimer \in {Undefined, Null} \cup (1..nextTimer)
  /\ pendingLocks \subseteq 1..nextLock
  /\ activeLocks \subseteq 1..nextLock
  /\ liveTimers \subseteq 1..nextTimer
  /\ pendingPlay \in 0..MaxPending
  /\ resets \in 0..MaxResets
  /\ loading \in BOOLEAN
  /\ stops \in 0..1

\* ------------------------------------------------------------- claims
\* The strategy's underlying resource is active.
ResourceActive == activeLocks # {} \/ liveTimers # {} \/ playing

\* Lock handles, timers and playing media surfaces currently active.
ActiveResources ==
  Cardinality(activeLocks) + Cardinality(liveTimers) + (IF playing THEN 1 ELSE 0)

\* No platform request is pending.
Quiet == pendingLocks = {} /\ pendingPlay = 0

\* The stored handle is a sentinel that has been released.
HeldLockReleased == Truthy(_wakeLock) /\ _wakeLock \notin activeLocks

\* C1: in every reachable state, enabled is true if and only if the
\* strategy's underlying resource (unreleased lock, running timer, playing
\* media) is active.
C1_EnabledIffResourceActive == enabled <=> ResourceActive

\* C2: construction populates the fields of exactly one strategy, and in
\* every reachable state at most one underlying resource is active.
C2_AtMostOneResource ==
  /\ Cardinality({f \in {"native", "legacy", "media"} :
        \/ f = "native" /\ visibilityListener # NoListener
        \/ f = "legacy" /\ noSleepTimer # Undefined
        \/ f = "media" /\ noSleepElement # NoElement}) = 1
  /\ ActiveResources <= 1

\* C3: when disable() was called right after enable(), then once no platform
\* request is pending the inhibitor is not enabled and no lock, timer or
\* media is active.
C3_EnableThenDisableLeavesNothing ==
  (calls = <<"enable", "disable">> /\ Quiet) => (~enabled /\ ~ResourceActive)

\* C4: native strategy: when the platform releases the held lock while the
\* inhibitor is enabled, isEnabled is false once the release has been handled.
C4_ReleaseClearsEnabled ==
  [][(/\ Strategy = "Native"
      /\ enabled
      /\ _wakeLock \in activeLocks
      /\ lastOp' = "release"
      /\ _wakeLock \notin activeLocks') => ~enabled']_vars

\* C5: native strategy: once a lock request has resolved (isEnabled true) and
\* the platform has released that lock, the next page-became-visible
\* transition issues a new lock request, and a granted request leaves the
\* inhibitor enabled with its stored lock active.
C5_VisibleReacquires ==
  [][/\ (/\ Strategy = "Native"
         /\ enabled
         /\ HeldLockReleased
         /\ hidden
         /\ ~hidden') => (nextLock' = nextLock + 1 /\ nextLock' \in pendingLocks')
     /\ (Strategy = "Native" /\ lastOp' = "grant" /\ pendingLocks' # pendingLocks)
           => (enabled' /\ _wakeLock' \in activeLocks')]_vars

\* C6: when the platform rejects the lock request or blocks playback, the
\* awaitable of enable() rejects with the platform's error and isEnabled is
\* false from then on until another enable() settles, whatever the flag was
\* when enable() was called.
C6_RejectionLeavesDisabled ==
  settled \in Errors => (settled = platformErr /\ ~enabled)

\* A lock request was rejected while an earlier lock was held and enabled.
C6_Witness ==
  /\ lastOp = "reject"
  /\ settled \in Errors
  /\ _wakeLock \in activeLocks
  /\ ~enabled

\* C7: disable() raises nothing and leaves isEnabled false on return, in
\* every reachable state of every strategy.
C7_DisableNeverFails == lastOp = "disable" => (raised = "none" /\ ~enabled)

\* disable() returned while an enable() request was in flight and no lock
\* was stored.
C7_Witness ==
  /\ Strategy = "Native"
  /\ lastOp = "disable"
  /\ calls = <<"enable", "disable">>
  /\ pendingLocks # {}
  /\ _wakeLock = Null

\* What disable() acts on: flag, handles, resources, subscription, outcome.
Inhibitor == <<enabled, _wakeLock, noSleepTimer, playing, subscribed,
               activeLocks, liveTimers, raised>>

\* No enable() has been invoked since construction.
NeverEnabled ==
  nextLock = 0 /\ nextTimer = 0 /\ pendingPlay = 0 /\ settled = "none"

\* C8: a disable() that directly follows a disable() changes nothing of the
\* inhibitor, and disable() on a never-enabled inhibitor leaves the flag and
\* the resources as construction left them.
C8_DisableIdempotent ==
  [][/\ (lastOp = "disable" /\ lastOp' = "disable") => Inhibitor' = Inhibitor
     /\ (NeverEnabled /\ lastOp' = "disable")
           => /\ enabled' = FALSE
              /\ <<_wakeLock, noSleepTimer, playing, activeLocks, liveTimers>>'
                   = <<_wakeLock, noSleepTimer, playing, activeLocks, liveTimers>>]_vars

\* Two disable() calls in a row on an inhibitor that had been enabled.
C8_Witness ==
  /\ lastOp = "disable"
  /\ calls = <<"disable", "disable">>
  /\ userEnabled
  /\ settled = "resolved"

\* C9: every enable() and disable() call takes the branch of the strategy
\* the constructor selected, even when the detector's answers have changed.
C9_DispatchFixed == dispatched \in {"none", Strategy}

\* C10: a native-strategy inhibitor whose user never called enable() stays
\* disabled and issues no lock request, whatever the page's visibility does.
C10_NoAutomaticEnable ==
  (Strategy = "Native" /\ ~userEnabled) => (~enabled /\ nextLock = 0)

\* The last enable()/disable() invocation, by the user or by the listener.
LastCall == IF calls = <<>> THEN "none" ELSE calls[Len(calls)]

\* C11: native strategy: after disable() has returned and until enable() is
\* called again, a page-became-visible transition invokes no enable(): no
\* lock request is issued and no lock is acquired by it.
C11_DisableStopsReacquire ==
  [][(/\ Strategy = "Native"
      /\ LastCall = "disable"
      /\ hidden
      /\ ~hidden') => /\ calls' = calls
                      /\ nextLock' = nextLock
                      /\ pendingLocks' = pendingLocks
                      /\ activeLocks' = activeLocks
                      /\ enabled' = enabled]_vars

\* The page became visible after disable() on an inhibitor that had held a
\* lock, and nothing was requested.
C11_Witness ==
  /\ Strategy = "Native"
  /\ lastOp = "visible"
  /\ LastCall = "disable"
  /\ userEnabled
  /\ nextLock > 0
  /\ pendingLocks = {}

\* C12: native strategy: every enable() registers the Visibility Notifier,
\* so after disable() and a new enable() that was granted, once the platform
\* has released the lock the next page-became-visible transition issues a
\* new lock request.
C12_EnableRegistersNotifier ==
  [][(/\ Strategy = "Native"
      /\ calls = <<"disable", "enable">>
      /\ enabled
      /\ HeldLockReleased
      /\ hidden
      /\ ~hidden') => (nextLock' = nextLock + 1 /\ nextLock' \in pendingLocks')]_vars

\* C13: native strategy: a platform release issues no lock request; lock
\* requests are issued only by a user enable() call or by a
\* page-became-visible transition.
C13_ReleaseDoesNotReacquire ==
  [][/\ lastOp' = "release" => (nextLock' = nextLock /\ pendingLocks' = pendingLocks)
     /\ (nextLock' # nextLock \/ ~(pendingLocks' \subseteq pendingLocks))
           => lastOp' \in {"enable", "visible"}]_vars

\* The platform released the stored lock of an enabled native inhibitor and
\* no request is pending.
C13_Witness ==
  /\ Strategy = "Native"
  /\ lastOp = "release"
  /\ enabled
  /\ HeldLockReleased
  /\ pendingLocks = {}

\* C14: legacy strategy: when enable() returns, isEnabled is true, nothing
\* was raised and the awaitable resolves, and exactly one recurring timer is
\* running however many enable() calls came before.
C14_LegacyEnableSynchronous ==
  (Strategy = "Legacy" /\ lastOp = "enable")
    => /\ enabled
       /\ settled = "resolved"
       /\ raised = "none"
       /\ Cardinality(liveTimers) = 1

\* enable() returned directly after an earlier enable() on the legacy strategy.
C14_Witness ==
  /\ Strategy = "Legacy"
  /\ lastOp = "enable"
  /\ calls = <<"enable", "enable">>
  /\ nextTimer >= 2

\* u carries no fragment.
NoFragment(u) == \A i \in 1..Len(u) : u[i] # "#"

\* v is u cut before its first "#".
Stripped(u, v) ==
  /\ Len(v) <= Len(u)
  /\ v = SubSeq(u, 1, Len(v))
  /\ NoFragment(v)
  /\ (Len(v) < Len(u) => u[Len(v) + 1] = "#")

\* C15: legacy strategy: a tick while the page is visible performs exactly
\* one navigation reset (navigation to the URL without its fragment, with
\* the abort of loading scheduled and loading ended only by that abort); a
\* tick while the page is hidden performs none; nothing else navigates.
C15_TickResetsWhenVisible ==
  [][/\ (lastOp' = "tick" /\ ~hidden)
          => /\ resets' = resets + 1
             /\ Stripped(href, href')
             /\ loading'
             /\ stops' = 1
     /\ (lastOp' = "tick" /\ hidden)
          => <<resets, href, loading, stops>>' = <<resets, href, loading, stops>>
     /\ (resets' # resets \/ href' # href) => lastOp' = "tick"
     /\ loading' => stops' > 0
     /\ (loading /\ ~loading') => lastOp' = "stop"]_vars

\* A tick fired while the page was visible and its navigation is loading.
C15_Witness ==
  /\ Strategy = "Legacy"
  /\ lastOp = "tick"
  /\ ~hidden
  /\ resets >= 1
  /\ loading

\* The resource the inhibitor's own handle refers to is active.
StoredResourceActive ==
  \/ Strategy = "Native" /\ _wakeLock \in activeLocks
  \/ Strategy = "Media" /\ playing

\* The last call was disable() and a request issued before it has since
\* resolved: the inhibitor is enabled with its resource active.
Survived ==
  /\ Strategy \in {"Native", "Media"}
  /\ LastCall = "disable"
  /\ enabled
  /\ StoredResourceActive

\* C16 as stated: native and media strategies: disable() cancels no pending
\* request; a request that resolves after it leaves the inhibitor enabled
\* with its resource active, and it stays so until a disable() call.
C16_InFlightEnableSurvives ==
  [][/\ lastOp' = "disable"
          => (pendingLocks' = pendingLocks /\ pendingPlay' = pendingPlay)
     /\ (Strategy # "Legacy" /\ LastCall = "disable" /\ lastOp' \in {"grant", "played"})
          => (enabled' /\ StoredResourceActive')
     /\ (Survived /\ lastOp' # "disable")
          => (enabled' /\ StoredResourceActive')]_vars

\* C16 as amended: disable() cancels no pending request; a request that
\* resolves after it leaves the inhibitor enabled with its resource active;
\* enabled then turns false only by a disable() call or a rejected enable()
\* request, and the resource turns inactive only by a disable() call or a
\* platform release of the lock.
C16_InFlightEnableSurvivesAmended ==
  [][/\ lastOp' = "disable"
          => (pendingLocks' = pendingLocks /\ pendingPlay' = pendingPlay)
     /\ (Strategy # "Legacy" /\ LastCall = "disable" /\ lastOp' \in {"grant", "played"})
          => (enabled' /\ StoredResourceActive')
     /\ (Strategy # "Legacy" /\ enabled /\ ~enabled')
          => lastOp' \in {"disable", "reject", "blocked"}
     /\ (StoredResourceActive /\ ~StoredResourceActive')
          => lastOp' \in {"disable", "release"}]_vars

\* A lock request issued before disable() was granted after it.
C16_Witness ==
  /\ Survived
  /\ lastOp = "grant"
  /\ calls = <<"enable", "disable">>

\* C17: native strategy: disable() releases the stored handle and clears it,
\* and when no request is pending after disable() every lock the inhibitor
\* acquired has been released.
C17_DisableReleasesEveryLock ==
  [][(Strategy = "Native" /\ lastOp' = "disable")
        => /\ Truthy(_wakeLock) => _wakeLock \notin activeLocks'
           /\ _wakeLock' = Null
           /\ pendingLocks' = {} => activeLocks' = {}]_vars

\* C18: legacy strategy: a timer stops only inside disable() (called by the
\* user or at the start of enable()); while the last call is enable() the
\* stored timer is running whatever ticks and visibility changes occur; after
\* disable() no tick fires.
C18_TimerStopsOnlyByDisable ==
  [][Strategy = "Legacy"
        => /\ ~(liveTimers \subseteq liveTimers') => lastOp' \in {"disable", "enable"}
           /\ LastCall' = "enable" => noSleepTimer' \in liveTimers'
           /\ LastCall = "disable" => lastOp' # "tick"]_vars

\* A tick of the timer started by a repeated enable(), with the page hidden.
C18_Witness ==
  /\ Strategy = "Legacy"
  /\ lastOp = "tick"
  /\ hidden
  /\ LastCall = "enable"
  /\ nextTimer >= 2
  /\ noSleepTimer \in liveTimers

\* C19: legacy strategy: enabled is true exactly when the stored timer handle
\* is non-null, and a non-null handle is the only live interval timer.
C19_LegacyFlagMatchesHandle ==
  Strategy = "Legacy"
    => /\ enabled <=> Truthy(noSleepTimer)
       /\ Truthy(noSleepTimer) => liveTimers = {noSleepTimer}

\* Enabled again after a disable(), with a second timer.
C19_Witness ==
  /\ Strategy = "Legacy"
  /\ enabled
  /\ calls = <<"disable", "enable">>
  /\ noSleepTimer >= 2

\* C20: media strategy under sequential use: whenever no request is pending,
\* enabled is true exactly when the media surface is playing.
C20_MediaFlagMatchesPlayback ==
  (Strategy = "Media" /\ pendingPlay = 0) => (enabled <=> playing)

====
